---- MODULE Spec2Model ----
(***************************************************************************)
(* Model of the light-curve detrending scripts of STAT-Tool:               *)
(*   ffi_lowess_detrending_as_function_CDIPS.py  (variant "CDIPS")          *)
(*   ffi_lowess_detrending_with_binning.py       (variant "binning")        *)
(*                                                                         *)
(* Times are integers in units of 1e-6 day, so 0.1 day is 100000.          *)
(* Python indices are kept 0-based: Slice(s, low, high) is s[low:high].    *)
(* The local-regression fit (statsmodels lowess) is an external function:  *)
(* a call is recorded with its arguments, and a trend value is the pair    *)
(* (call, position in the section).                                        *)
(*                                                                         *)
(* Specifications:                                                         *)
(*   Spec        the lowess_partial detrending on every bounded input      *)
(*   SpecRerun   the same detrending run twice on one input                *)
(*   SpecDriver  the loop over the targets and the body run for each       *)
(*   SpecCalls   the helper functions bin, phase_fold_plot, clean_tess_lc  *)
(*               and uvw and the ranking of the periodogram peaks, each    *)
(*               called once on bounded arguments                          *)
(***************************************************************************)
EXTENDS Integers, Sequences, FiniteSets, TLC

VARIABLES
    variant,                    \* which script runs
    n_bins,                     \* minimum point count / lowess window
    transit_mask,               \* run parameter transit_mask
    pipeline,                   \* run parameter pipeline
    injected_planet,            \* run parameter injected_planet ("False" for False)
    run,                        \* "init", "loop", "finished" or "crashed"
    cur,                        \* number of the target being processed
    csv,                        \* rows of Period_info_table.csv
    saved,                      \* the other files written
    log,                        \* messages printed by the handlers
    load_failed,                \* targets whose light curve could not be loaded
    exc_stage,                  \* stage that raised the exception in flight
    crash_stage,                \* stage whose exception ended the run
    pc,                         \* position in the body of one target
    exc,                        \* exception in flight ("none" when there is none)
    lc_30min,                   \* the light curve variable
    target_ID,                  \* the target name variable (0 when unbound)
    bound,                      \* returned locals that are bound
    owner,                      \* target whose light curve t_cut/flux_cut hold
    t_cut,                      \* times handed to the detrending
    flux_cut,                   \* observed (normalised) fluxes
    flux_transit_mask,          \* fluxes with in-transit samples interpolated
    t_transit_mask,             \* times of flux_transit_mask
    i,                          \* loop index of the gap loop
    low_bound,                  \* start of the current section
    residual_flux_lowess,       \* concatenated residuals
    time_from_lowess_detrend,   \* concatenated times of the residuals
    fits,                       \* the calls of lowess made so far
    skipped,                    \* gap positions where 'Skipped one gap' was printed
    first_run,                  \* what an earlier run of the detrending on this input produced
    fn,                         \* the helper function being called ("none" when none is)
    args,                       \* its arguments
    ret                         \* what the call returned or raised

paramVars == <<variant, n_bins, transit_mask, pipeline, injected_planet>>
runVars == <<run, cur, csv, saved, log, load_failed, crash_stage>>
dataVars == <<owner, t_cut, flux_cut>>
maskVars == <<flux_transit_mask, t_transit_mask>>
loopVars == <<i, low_bound, residual_flux_lowess, time_from_lowess_detrend, fits, skipped>>
callVars == <<fn, args, ret>>
vars == <<paramVars, runVars, exc_stage, pc, exc, lc_30min, target_ID, bound,
          dataVars, maskVars, loopVars, first_run, callVars>>

----------------------------------------------------------------------------
\* Bounds of the model

MaxLen == 5
NBinsMax == 3
NTargets == 2

\* Program constants
GapThreshold == 100000
NBins2min == 450
MaskPeriodCDIPS == 8138000
MaskEpochCDIPS == 1332310000
MaskDurationCDIPS == 150000
MaskPeriodBinning == 8138268
MaskEpochBinning == 1332309970
MaskDurationBinning == 80000
QuadraticMinPoints == 3
LinearMinPoints == 2

\* Inputs: first timestamp and the cadences between consecutive samples
StartTime == 1332010000
Diffs == {100000, 200000}
Variants == {"CDIPS", "binning"}

\* CDIPS 53 and 792: the values of injected_planet; "False" stands for False
InjectedPlanets == {"exo_archive", "set_period", "set_depth", "user_defined", "False"}

\* no earlier run, no call of a helper function
NoRun == [done |-> FALSE]
NoArgs == [none |-> TRUE]
NoReturn == [status |-> "none"]

----------------------------------------------------------------------------
\* Helpers

Slice(s, low, high) == SubSeq(s, low + 1, high)

Abs(x) == IF x < 0 THEN 0 - x ELSE x

RECURSIVE TimesFrom(_, _)
TimesFrom(t0, ds) ==
    IF ds = <<>> THEN <<t0>>
    ELSE <<t0>> \o TimesFrom(t0 + Head(ds), Tail(ds))

DiffSeqs(n) == [1..n -> Diffs]

\* every strictly increasing time sequence of length 0..MaxLen
TimeSeqs ==
    {<<>>} \cup UNION {{TimesFrom(StartTime, ds) : ds \in DiffSeqs(n)} : n \in 0..(MaxLen - 1)}

\* the observed flux of sample k (0-based) of target o
ObservedFlux(o, k) == [src |-> "obs", owner |-> o, ix |-> k]

FluxOf(o, t) == [k \in 1..Len(t) |-> ObservedFlux(o, k - 1)]

\* np.diff(t_cut)[j]
time_diff(t, j) == t[j + 2] - t[j + 1]

----------------------------------------------------------------------------
\* Raising: control goes to the except clauses of the enclosing try
\* (CDIPS 707-710), past the row of the table and the detrended-lc CSV

RaiseThenAppend(e, stage) ==
    /\ pc' = "csv"
    /\ exc' = e
    /\ exc_stage' = stage

Raise(e, stage) ==
    /\ pc' = "handler"
    /\ exc' = e
    /\ exc_stage' = stage

----------------------------------------------------------------------------
\* Transit mask (CDIPS 345-381, binning 381-412)

MaskPeriod == IF variant = "CDIPS" THEN MaskPeriodCDIPS ELSE MaskPeriodBinning
MaskEpoch == IF variant = "CDIPS" THEN MaskEpochCDIPS ELSE MaskEpochBinning
MaskDuration == IF variant = "CDIPS" THEN MaskDurationCDIPS ELSE MaskDurationBinning

\* abs(phase - 0.5) < duration/period with phase = mod(t-epoch-period/2, period)/period,
\* both sides multiplied by period
near_transit(t) ==
    Abs(((t - MaskEpoch - (MaskPeriod \div 2)) % MaskPeriod) - (MaskPeriod \div 2)) < MaskDuration

\* the samples (time, flux) of a Boolean selection, as arr[mask] selects them
RECURSIVE Select(_, _, _)
Select(t, f, keepNear) ==
    IF t = <<>> THEN <<>>
    ELSE (IF near_transit(Head(t)) = keepNear THEN <<[time |-> Head(t), flux |-> Head(f)]>> ELSE <<>>)
         \o Select(Tail(t), Tail(f), keepNear)

\* interp1d(t_masked, flux_masked)(t_new): in-transit samples get interpolated fluxes
Interpolated(samples) ==
    [k \in 1..Len(samples) |->
        [time |-> samples[k].time,
         flux |-> [src |-> "interp", owner |-> samples[k].flux.owner, ix |-> samples[k].flux.ix]]]

\* interp1d needs enough support points and refuses to extrapolate
InterpMinPoints == IF variant = "CDIPS" THEN QuadraticMinPoints ELSE LinearMinPoints

InterpRaises(masked, new) ==
    \/ Len(masked) < InterpMinPoints
    \/ \E k \in 1..Len(new) :
          \/ new[k].time < masked[1].time
          \/ new[k].time > masked[Len(masked)].time

\* insertion into a sequence sorted by time
RECURSIVE Insert(_, _)
Insert(x, s) ==
    IF s = <<>> THEN <<x>>
    ELSE IF x.time < Head(s).time THEN <<x>> \o s
    ELSE <<Head(s)>> \o Insert(x, Tail(s))

\* s[np.argsort(times of s)]
RECURSIVE SortByTime(_)
SortByTime(s) ==
    IF s = <<>> THEN <<>> ELSE Insert(Head(s), SortByTime(Tail(s)))

ApplyTransitMask ==
    /\ pc = "mask"
    /\ IF ~transit_mask
       THEN /\ pc' = "lowess"
            /\ UNCHANGED <<exc, exc_stage, bound, maskVars>>
       ELSE LET masked == Select(t_cut, flux_cut, FALSE)
                new == Interpolated(Select(t_cut, flux_cut, TRUE))
                merged == SortByTime(masked \o new)
            IN  /\ bound' = (IF variant = "CDIPS"
                             THEN bound \cup {"period", "epoch", "phase"} ELSE bound)
                /\ IF InterpRaises(masked, new)
                   THEN /\ Raise("ValueError", "mask")
                        /\ UNCHANGED maskVars
                   ELSE /\ pc' = "lowess"
                        /\ t_transit_mask' = [k \in 1..Len(merged) |-> merged[k].time]
                        /\ flux_transit_mask' = [k \in 1..Len(merged) |-> merged[k].flux]
                        /\ UNCHANGED <<exc, exc_stage>>
    /\ UNCHANGED <<paramVars, first_run, callVars, runVars, lc_30min, target_ID, dataVars, loopVars>>

----------------------------------------------------------------------------
\* lowess_partial (CDIPS 427-490, binning 493-543)

\* CDIPS 440-443: n_bins is forced to 450 for the '2min' pipeline.  The binning
\* script writes the window as a literal in each call; n_bins stands for it.
Window ==
    IF variant = "CDIPS" /\ pipeline = "2min" THEN NBins2min ELSE n_bins

\* the gap test of the loop
IsGapOrEqual(t, j) == time_diff(t, j) >= GapThreshold

IsGap(t, j) == time_diff(t, j) > GapThreshold

\* a gap closes the section when the section is long enough (CDIPS 451);
\* the binning script closes a section at every gap
ClosesSectionAlways(len) == TRUE

ClosesSection(len) ==
    IF variant = "CDIPS" THEN len >= Window ELSE TRUE

\* the call sm.nonparametric.lowess(endog, exog, frac = window/len)
LowessCallUnmasked(low, high) ==
    [low |-> low, high |-> high,
     endog |-> Slice(flux_cut, low, high),
     exog |-> Slice(t_cut, low, high),
     window |-> Window,
     len |-> Len(Slice(t_cut, low, high))]

LowessCall(low, high) ==
    [low |-> low, high |-> high,
     endog |-> IF transit_mask THEN Slice(flux_transit_mask, low, high)
               ELSE Slice(flux_cut, low, high),
     exog |-> IF transit_mask THEN Slice(t_transit_mask, low, high)
              ELSE Slice(t_cut, low, high),
     window |-> Window,
     len |-> Len(Slice(t_cut, low, high))]

\* lowess rejects a frac outside [0, 1]
FracRaises(call) == call.window > call.len

\* residuals_section = flux_section/lowess_flux_section, where lowess[:,1] of
\* call number c is ordered by time as the section is
residuals_section_reversed(low, high, c) ==
    [p \in 1..Len(Slice(flux_cut, low, high)) |->
        [obs |-> Slice(flux_cut, low, high)[Len(Slice(flux_cut, low, high)) + 1 - p],
         fit |-> c, pos |-> p]]

residuals_section(low, high, c) ==
    [p \in 1..Len(Slice(flux_cut, low, high)) |->
        [obs |-> Slice(flux_cut, low, high)[p], fit |-> c, pos |-> p]]

\* low_bound after a section was fitted and appended
NextLowBoundStale(high) == low_bound

NextLowBound(high) == high

\* low_bound after 'Skipped one gap': the section stays open
LowBoundAfterSkipDrops(low, high) == high

LowBoundAfterSkip(low, high) == low

\* residual_flux_lowess = np.array([]) and time_from_lowess_detrend = np.array([])
\* (CDIPS 429-430, binning 495-496): the accumulators start empty, whatever the
\* variables held before
StartOfOutputKept(previous) == previous

StartOfOutput(previous) == <<>>

LowessPartial ==
    /\ pc = "lowess"
    /\ pc' = "loop"
    /\ i' = 0
    /\ low_bound' = 0
    /\ residual_flux_lowess' = StartOfOutput(residual_flux_lowess)
    /\ time_from_lowess_detrend' = StartOfOutput(time_from_lowess_detrend)
    /\ fits' = <<>>
    /\ skipped' = {}
    /\ UNCHANGED <<paramVars, first_run, callVars, runVars, exc_stage, exc, lc_30min, target_ID, bound,
                   dataVars, maskVars>>

\* one iteration of: for i in range(len(t_cut)-1)
GapLoopStep ==
    /\ pc = "loop"
    /\ i < Len(t_cut) - 1
    /\ i' = i + 1
    /\ IF ~IsGap(t_cut, i)
       THEN UNCHANGED <<pc, exc, exc_stage, low_bound, residual_flux_lowess,
                        time_from_lowess_detrend, fits, skipped>>
       ELSE LET high_bound == i + 1
                t_section == Slice(t_cut, low_bound, high_bound)
                call == LowessCall(low_bound, high_bound)
            IN  IF ~ClosesSection(Len(t_section))
                THEN /\ skipped' = skipped \cup {i}
                     /\ low_bound' = LowBoundAfterSkip(low_bound, high_bound)
                     /\ UNCHANGED <<pc, exc, exc_stage, residual_flux_lowess,
                                    time_from_lowess_detrend, fits>>
                ELSE /\ fits' = Append(fits, call)
                     /\ UNCHANGED skipped
                     /\ IF FracRaises(call)
                        THEN /\ Raise("ValueError", "detrend")
                             /\ UNCHANGED <<low_bound, residual_flux_lowess,
                                            time_from_lowess_detrend>>
                        ELSE /\ residual_flux_lowess' = residual_flux_lowess \o
                                    residuals_section(low_bound, high_bound, Len(fits) + 1)
                             /\ time_from_lowess_detrend' = time_from_lowess_detrend \o t_section
                             /\ low_bound' = NextLowBound(high_bound)
                             /\ UNCHANGED <<pc, exc, exc_stage>>
    /\ UNCHANGED <<paramVars, first_run, callVars, runVars, lc_30min, target_ID, bound, dataVars, maskVars>>

\* CDIPS 480-481: with an injected planet the name of the figure file is
\* formatted from params.rp and params.per, and params is assigned nowhere
\* (165-260 are comments); the binning script saves no figure
FigureNameRaises == variant = "CDIPS" /\ injected_planet # "False"

\* the final section, up to the end of the data
TrailingSection ==
    /\ pc = "loop"
    /\ i >= Len(t_cut) - 1
    /\ LET high_bound == Len(t_cut)
           t_section == Slice(t_cut, low_bound, high_bound)
           call == LowessCall(low_bound, high_bound)
       IN  IF Len(t_section) = 0
           THEN /\ Raise("ZeroDivisionError", "detrend")
                /\ UNCHANGED <<residual_flux_lowess, time_from_lowess_detrend, fits>>
           ELSE /\ fits' = Append(fits, call)
                /\ IF FracRaises(call)
                   THEN /\ Raise("ValueError", "detrend")
                        /\ UNCHANGED <<residual_flux_lowess, time_from_lowess_detrend>>
                   ELSE IF FigureNameRaises
                   THEN /\ Raise("NameError", "detrend")
                        /\ UNCHANGED <<residual_flux_lowess, time_from_lowess_detrend>>
                   ELSE \E savefig \in {"ok", "OSError"} :
                          IF savefig # "ok" /\ variant = "CDIPS"
                          THEN /\ Raise(savefig, "detrend")
                               /\ UNCHANGED <<residual_flux_lowess, time_from_lowess_detrend>>
                          ELSE /\ residual_flux_lowess' = residual_flux_lowess \o
                                      residuals_section(low_bound, high_bound, Len(fits) + 1)
                               /\ time_from_lowess_detrend' = time_from_lowess_detrend \o t_section
                               /\ pc' = "bls"
                               /\ UNCHANGED <<exc, exc_stage>>
    /\ UNCHANGED <<paramVars, first_run, callVars, runVars, lc_30min, target_ID, bound, dataVars, maskVars,
                   i, low_bound, skipped>>

----------------------------------------------------------------------------
\* The detrending routine on every bounded input: the state at the transit
\* mask stage of target 1, for each light curve and each parameter choice.

NoLightCurve == [bound |-> FALSE, owner |-> 0, time |-> <<>>]

Init ==
    /\ variant \in Variants
    /\ n_bins \in 1..NBinsMax
    /\ transit_mask \in BOOLEAN
    /\ pipeline = "CDIPS"
    /\ injected_planet \in InjectedPlanets
    /\ first_run = NoRun
    /\ fn = "none"
    /\ args = NoArgs
    /\ ret = NoReturn
    /\ run = "loop"
    /\ cur = 1
    /\ csv = <<>>
    /\ saved = {}
    /\ log = <<>>
    /\ load_failed = {}
    /\ exc_stage = "none"
    /\ crash_stage = "none"
    /\ pc = "mask"
    /\ exc = "none"
    /\ t_cut \in TimeSeqs
    /\ owner = 1
    /\ flux_cut = FluxOf(1, t_cut)
    /\ lc_30min = [bound |-> TRUE, owner |-> 1, time |-> t_cut]
    /\ target_ID = 1
    /\ bound = {}
    /\ flux_transit_mask = <<>>
    /\ t_transit_mask = <<>>
    /\ i = 0
    /\ low_bound = 0
    /\ residual_flux_lowess = <<>>
    /\ time_from_lowess_detrend = <<>>
    /\ fits = <<>>
    /\ skipped = {}

Next ==
    \/ ApplyTransitMask
    \/ LowessPartial
    \/ GapLoopStep
    \/ TrailingSection

Spec == Init /\ [][Next]_vars

----------------------------------------------------------------------------
\* The detrending run a second time on the same input with the same parameters:
\* the next call of ffi_lowess_detrend (CDIPS 828), whose locals are fresh, or
\* the next pass of the loop of the binning script (127), whose variables are
\* the module's and keep what the pass before left in them.

\* what a run of the detrending produced
Produced ==
    [done |-> TRUE,
     exc |-> exc,
     fits |-> fits,
     skipped |-> skipped,
     time_from_lowess_detrend |-> time_from_lowess_detrend,
     residual_flux_lowess |-> residual_flux_lowess]

Rerun ==
    /\ pc \in {"bls", "handler"}
    /\ ~first_run.done
    /\ first_run' = Produced
    /\ pc' = "mask"
    /\ exc' = "none"
    /\ exc_stage' = "none"
    /\ IF variant = "CDIPS"
       THEN /\ bound' = {}
            /\ flux_transit_mask' = <<>>
            /\ t_transit_mask' = <<>>
            /\ i' = 0
            /\ low_bound' = 0
            /\ residual_flux_lowess' = <<>>
            /\ time_from_lowess_detrend' = <<>>
            /\ fits' = <<>>
            /\ skipped' = {}
       ELSE /\ fits' = <<>>
            /\ skipped' = {}
            /\ UNCHANGED <<bound, maskVars, i, low_bound, residual_flux_lowess,
                           time_from_lowess_detrend>>
    /\ UNCHANGED <<paramVars, callVars, runVars, lc_30min, target_ID, dataVars>>

NextRerun ==
    \/ ApplyTransitMask
    \/ LowessPartial
    \/ GapLoopStep
    \/ TrailingSection
    \/ Rerun

SpecRerun == Init /\ [][NextRerun]_vars

----------------------------------------------------------------------------
\* The driver and the body run for each target
\*   CDIPS:   the module-level loop (811-831) calling ffi_lowess_detrend (53-711)
\*   binning: the module-level loop over single_target_ID (127-754)

\* what a library call or a file operation of a stage can do
StageOutcomes == {"ok", "RuntimeError", "ValueError"}

\* light curves the files of the run can hold
DriverCurves ==
    {<<>>} \cup
    {TimesFrom(StartTime, ds) :
        ds \in {[k \in 1..(MaxLen - 1) |-> 100000],
                [k \in 1..(MaxLen - 1) |-> IF k = 2 THEN 200000 ELSE 100000],
                [k \in 1..(MaxLen - 1) |-> 200000]}}

\* momentum-dump times read from the sector's bad-times pickle
MomDumps == {{}, {StartTime}}
DumpHalfWidth == 15000

\* the rows the driver writes before the loop
InfoRow == [TIC |-> "info", writer |-> 0, owner |-> 0]
HeaderRow == [TIC |-> "header", writer |-> 0, owner |-> 0]
OldRow == [TIC |-> "old", writer |-> 0, owner |-> 0]

\* the locals that the return statement reads
Returned == {"t_cut", "BLS_flux", "phase", "epoch", "period"}

\* an exception leaves the module-level loop: the script ends
Crash ==
    /\ run' = "crashed"
    /\ crash_stage' = exc_stage
    /\ pc' = "dead"

\* the run ends because the exception raised here is not caught anywhere
CrashAt(stage) ==
    /\ run' = "crashed"
    /\ crash_stage' = stage
    /\ pc' = "dead"

\* the state of a file name after it is written again
Written(file, key, o) ==
    {f \in saved : ~(f.file = file /\ f.key = key)}
        \cup {[file |-> file, key |-> key, writer |-> cur, owner |-> o]}

\* after the body of a target: the function returns, the loop body ends
AfterBody == IF variant = "CDIPS" THEN "return" ELSE "idle"

\* CDIPS 814-819: open(save_path+'Period_info_table.csv','w') empties the file
\* of the run before, then the two rows are written
TableAppendedTo(old) == old \o <<InfoRow, HeaderRow>>

TableOpenedForWriting(old) == <<InfoRow, HeaderRow>>

\* CDIPS 813-822: the table is truncated and its two header rows written
StartRun ==
    /\ run = "init"
    /\ run' = "loop"
    /\ csv' = (IF variant = "CDIPS" THEN TableOpenedForWriting(csv) ELSE csv)
    /\ UNCHANGED <<paramVars, first_run, callVars, cur, saved, log, load_failed, crash_stage, exc_stage, pc, exc,
                   lc_30min, target_ID, bound, dataVars, maskVars, loopVars>>

\* CDIPS 824-831 and 53-55; binning 127-128
NextTarget ==
    /\ run = "loop"
    /\ pc = "idle"
    /\ IF cur = NTargets
       THEN /\ run' = "finished"
            /\ UNCHANGED <<cur, pc, exc, exc_stage, lc_30min, target_ID, bound, dataVars,
                           maskVars, loopVars>>
       ELSE /\ cur' = cur + 1
            /\ pc' = "load"
            /\ exc' = "none"
            /\ exc_stage' = "none"
            /\ run' = run
            /\ IF variant = "CDIPS"
               THEN /\ lc_30min' = [bound |-> TRUE, owner |-> 0, time |-> <<>>]
                    /\ target_ID' = 0
                    /\ bound' = {}
                    /\ owner' = 0
                    /\ t_cut' = <<>>
                    /\ flux_cut' = <<>>
                    /\ flux_transit_mask' = <<>>
                    /\ t_transit_mask' = <<>>
                    /\ i' = 0
                    /\ low_bound' = 0
                    /\ residual_flux_lowess' = <<>>
                    /\ time_from_lowess_detrend' = <<>>
                    /\ fits' = <<>>
                    /\ skipped' = {}
               ELSE /\ target_ID' = cur + 1
                    /\ UNCHANGED <<lc_30min, bound, dataVars, maskVars, loopVars>>
    /\ UNCHANGED <<paramVars, first_run, callVars, csv, saved, log, load_failed, crash_stage>>

\* CDIPS 81-116, binning 129-154
Load ==
    /\ pc = "load"
    /\ IF variant = "CDIPS"
       THEN IF pipeline = "CDIPS"
            THEN \/ \E curve \in DriverCurves :
                       /\ lc_30min' = [bound |-> TRUE, owner |-> cur, time |-> curve]
                       /\ target_ID' = cur
                       /\ pc' = "clean"
                       /\ UNCHANGED <<exc, exc_stage, log, load_failed>>
                 \/ /\ load_failed' = load_failed \cup {cur}
                    /\ IF target_ID = 0
                       THEN /\ Raise("UnboundLocalError", "load")
                            /\ UNCHANGED log
                       ELSE /\ log' = Append(log, <<"Lightcurve not available", target_ID>>)
                            /\ pc' = "clean"
                            /\ UNCHANGED <<exc, exc_stage>>
                    /\ UNCHANGED <<lc_30min, target_ID>>
            ELSE /\ log' = Append(log, <<"Invalid pipeline", 0>>)
                 /\ load_failed' = load_failed \cup {cur}
                 /\ pc' = "clean"
                 /\ UNCHANGED <<exc, exc_stage, lc_30min, target_ID>>
       ELSE \/ \E curve \in DriverCurves :
                  /\ lc_30min' = [bound |-> TRUE, owner |-> cur, time |-> curve]
                  /\ pc' = "pickle"
                  /\ UNCHANGED <<exc, exc_stage, log, load_failed, target_ID>>
            \/ /\ load_failed' = load_failed \cup {cur}
               /\ log' = Append(log, <<"Lightcurve not available", target_ID>>)
               /\ pc' = "pickle"
               /\ UNCHANGED <<exc, exc_stage, lc_30min, target_ID>>
    /\ UNCHANGED <<paramVars, first_run, callVars, run, cur, csv, saved, crash_stage, bound, dataVars,
                   maskVars, loopVars>>

\* time[~for_removal] of clean_tess_lc for a sector without an excluded window
CleanTimes(t, dumps) ==
    SelectSeq(t, LAMBDA x : \A d \in dumps : ~(Abs(x - d) < DumpHalfWidth))

\* CDIPS 127-132
Clean ==
    /\ pc = "clean"
    /\ variant = "CDIPS"
    /\ IF target_ID = 0
       THEN /\ Raise("UnboundLocalError", "clean")
            /\ UNCHANGED lc_30min
       ELSE \E outcome \in StageOutcomes :
              IF outcome = "ok"
              THEN \E dumps \in MomDumps :
                     /\ lc_30min' = [lc_30min EXCEPT !.time = CleanTimes(lc_30min.time, dumps)]
                     /\ pc' = "ls"
                     /\ UNCHANGED <<exc, exc_stage>>
              ELSE /\ Raise(outcome, "clean")
                   /\ UNCHANGED lc_30min
    /\ UNCHANGED <<paramVars, first_run, callVars, runVars, target_ID, bound, dataVars, maskVars, loopVars>>

\* binning 164-167
SaveOriginal ==
    /\ pc = "pickle"
    /\ variant = "binning"
    /\ IF ~lc_30min.bound
       THEN /\ Raise("NameError", "pickle")
            /\ UNCHANGED saved
       ELSE \E outcome \in StageOutcomes :
              IF outcome = "ok"
              THEN /\ saved' = Written("Original_pdcsap", 0, lc_30min.owner)
                   /\ pc' = "ls"
                   /\ UNCHANGED <<exc, exc_stage>>
              ELSE /\ Raise(outcome, "pickle")
                   /\ UNCHANGED saved
    /\ UNCHANGED <<paramVars, first_run, callVars, run, cur, csv, log, load_failed, crash_stage, lc_30min,
                   target_ID, bound, dataVars, maskVars, loopVars>>

\* CDIPS 134-152, binning 200-223
RotationPeriod ==
    /\ pc = "ls"
    /\ \E outcome \in StageOutcomes :
          IF outcome = "ok"
          THEN /\ pc' = "cut"
               /\ UNCHANGED <<exc, exc_stage>>
          ELSE Raise(outcome, "ls")
    /\ UNCHANGED <<paramVars, first_run, callVars, runVars, lc_30min, target_ID, bound, dataVars, maskVars,
                   loopVars>>

\* CDIPS 266-341, binning 300-377, with use_peak_cut = False
PeakCut ==
    /\ pc = "cut"
    /\ pc' = "mask"
    /\ t_cut' = lc_30min.time
    /\ flux_cut' = FluxOf(lc_30min.owner, lc_30min.time)
    /\ owner' = lc_30min.owner
    /\ bound' = bound \cup {"t_cut"}
    /\ UNCHANGED <<paramVars, first_run, callVars, runVars, exc_stage, exc, lc_30min, target_ID, maskVars,
                   loopVars>>

\* CDIPS 512-536, binning 599-609
Periodogram ==
    /\ pc = "bls"
    /\ IF variant = "CDIPS"
       THEN \E outcome \in StageOutcomes :
              IF outcome = "ok"
              THEN /\ bound' = bound \cup {"BLS_flux", "period", "epoch"}
                   /\ pc' = "peaks"
                   /\ UNCHANGED <<exc, exc_stage>>
              ELSE /\ bound' = bound \cup {"BLS_flux"}
                   /\ Raise(outcome, "bls")
       ELSE /\ bound' = bound \cup {"BLS_flux"}
            /\ pc' = "save"
            /\ UNCHANGED <<exc, exc_stage>>
    /\ UNCHANGED <<paramVars, first_run, callVars, runVars, lc_30min, target_ID, dataVars, maskVars, loopVars>>

\* CDIPS 560-576
PeakRanking ==
    /\ pc = "peaks"
    /\ \E outcome \in StageOutcomes :
          IF outcome = "ok"
          THEN /\ pc' = "fold"
               /\ UNCHANGED <<exc, exc_stage>>
          ELSE Raise(outcome, "peaks")
    /\ UNCHANGED <<paramVars, first_run, callVars, runVars, lc_30min, target_ID, bound, dataVars, maskVars,
                   loopVars>>

\* CDIPS 581-653: the folds by the three periods and the eyeballing figure;
\* phase is assigned at 642, before the figure is saved at 652
PhaseFold ==
    /\ pc = "fold"
    /\ \/ \E outcome \in StageOutcomes \ {"ok"} :
             /\ Raise(outcome, "fold")
             /\ UNCHANGED bound
       \/ \E outcome \in StageOutcomes :
             /\ bound' = bound \cup {"phase"}
             /\ IF outcome = "ok"
                THEN /\ pc' = "csv"
                     /\ UNCHANGED <<exc, exc_stage>>
                ELSE Raise(outcome, "fold")
    /\ UNCHANGED <<paramVars, first_run, callVars, runVars, lc_30min, target_ID, dataVars, maskVars, loopVars>>

\* CDIPS 656-662
AppendRow ==
    /\ pc = "csv"
    /\ \E outcome \in StageOutcomes :
          IF outcome = "ok"
          THEN /\ csv' = Append(csv, [TIC |-> target_ID, writer |-> cur, owner |-> owner])
               /\ pc' = "save"
               /\ UNCHANGED <<exc, exc_stage>>
          ELSE /\ Raise(outcome, "csv")
               /\ UNCHANGED csv
    /\ UNCHANGED <<paramVars, first_run, callVars, run, cur, saved, log, load_failed, crash_stage, lc_30min,
                   target_ID, bound, dataVars, maskVars, loopVars>>

\* CDIPS 700-703, binning 745-749
SaveDetrended ==
    /\ pc = "save"
    /\ \E outcome \in StageOutcomes :
          IF outcome = "ok"
          THEN /\ saved' = (IF variant = "CDIPS"
                            THEN Written("detrended_lc", target_ID, owner)
                            ELSE Written("Lowess_50_detrended_pdcsap", 0, owner))
               /\ pc' = AfterBody
               /\ UNCHANGED <<exc, exc_stage>>
          ELSE /\ Raise(outcome, "save")
               /\ UNCHANGED saved
    /\ UNCHANGED <<paramVars, first_run, callVars, run, cur, csv, log, load_failed, crash_stage, lc_30min,
                   target_ID, bound, dataVars, maskVars, loopVars>>

\* the except clauses: CDIPS 707-710, binning 751-754
Handler ==
    /\ pc = "handler"
    /\ IF exc = "RuntimeError" \/ variant = "CDIPS"
       THEN IF target_ID = 0
            THEN /\ Crash
                 /\ UNCHANGED <<log, exc>>
            ELSE /\ log' = Append(log, <<IF exc = "RuntimeError" THEN "No DiffImage lc exists"
                                          ELSE "Some other error", target_ID>>)
                 /\ pc' = AfterBody
                 /\ exc' = "none"
                 /\ UNCHANGED <<run, crash_stage>>
       ELSE /\ Crash
            /\ UNCHANGED <<log, exc>>
    /\ UNCHANGED <<paramVars, first_run, callVars, cur, csv, saved, load_failed, exc_stage, lc_30min, target_ID,
                   bound, dataVars, maskVars, loopVars>>

\* CDIPS 711: return t_cut, BLS_flux, phase, epoch, period
Return ==
    /\ pc = "return"
    /\ IF Returned \subseteq bound
       THEN /\ pc' = "idle"
            /\ UNCHANGED <<run, crash_stage>>
       ELSE CrashAt(IF exc_stage = "none" THEN "return" ELSE exc_stage)
    /\ UNCHANGED <<paramVars, first_run, callVars, cur, csv, saved, log, load_failed, exc_stage, exc, lc_30min,
                   target_ID, bound, dataVars, maskVars, loopVars>>

InitDriver ==
    /\ variant \in Variants
    /\ n_bins \in 1..NBinsMax
    /\ transit_mask \in BOOLEAN
    /\ pipeline \in (IF variant = "CDIPS" THEN {"CDIPS", "2min"} ELSE {"2min"})
    /\ injected_planet \in {"False", "user_defined"}
    /\ first_run = NoRun
    /\ fn = "none"
    /\ args = NoArgs
    /\ ret = NoReturn
    /\ run = "init"
    /\ cur = 0
    /\ csv \in {<<>>, <<InfoRow, HeaderRow, OldRow>>}
    /\ saved = {}
    /\ log = <<>>
    /\ load_failed = {}
    /\ exc_stage = "none"
    /\ crash_stage = "none"
    /\ pc = "idle"
    /\ exc = "none"
    /\ lc_30min = NoLightCurve
    /\ target_ID = 0
    /\ bound = {}
    /\ owner = 0
    /\ t_cut = <<>>
    /\ flux_cut = <<>>
    /\ flux_transit_mask = <<>>
    /\ t_transit_mask = <<>>
    /\ i = 0
    /\ low_bound = 0
    /\ residual_flux_lowess = <<>>
    /\ time_from_lowess_detrend = <<>>
    /\ fits = <<>>
    /\ skipped = {}

NextDriver ==
    \/ StartRun
    \/ NextTarget
    \/ Load
    \/ Clean
    \/ SaveOriginal
    \/ RotationPeriod
    \/ PeakCut
    \/ ApplyTransitMask
    \/ LowessPartial
    \/ GapLoopStep
    \/ TrailingSection
    \/ Periodogram
    \/ PeakRanking
    \/ PhaseFold
    \/ AppendRow
    \/ SaveDetrended
    \/ Handler
    \/ Return

SpecDriver == InitDriver /\ [][NextDriver]_vars

----------------------------------------------------------------------------
\* The helper functions of the scripts, each called on bounded arguments:
\*   bin                 CDIPS 734-765, binning 57-92, remove_tess_systematics 35-49
\*   phase_fold_plot     CDIPS 714-731, binning 36-53
\*   uvw                 part_000 24-84 (Reverse Spatial Evolution.py)
\*   old_position_angle  part_000 86-108, with the wrap-around loop 157-162
\* A call is recorded as fn, args and ret; a raised exception carries the
\* line of the CDIPS script (or of the file of the function) that raised it.

MaxBinsize == 3

Returns(v) == [status |-> "returned", value |-> v]
Raises(e, line) == [status |-> "raised", exc |-> e, line |-> line]

\* np.arange(n)
arange(n) == [k \in 1..n |-> k - 1]

\* np.array_split(np.arange(L), N) for N > 0: the first L % N sections hold
\* L // N + 1 indexes, the others L // N
array_split(L, N) ==
    LET Neach == L \div N
        extras == L % N
        size(b) == IF b <= extras THEN Neach + 1 ELSE Neach
        start(b) == (b - 1) * Neach + (IF b - 1 <= extras THEN b - 1 ELSE extras)
    IN  [b \in 1..N |-> [p \in 1..size(b) |-> start(b) + p - 1]]

\* methodf(arr[a]): np.nanmean or np.nanmedian of the samples with indexes a
methodf(method, arr, a) ==
    [methodf |-> "nan" \o method, a |-> a, of |-> [p \in 1..Len(a) |-> arr[a[p] + 1]]]

available_methods == {"mean", "median"}

\* bin(time, flux, binsize, method), CDIPS 755-765
bin(time, flux, binsize, method) ==
    IF method \notin available_methods THEN Raises("ValueError", 757)
    ELSE IF binsize = 0 THEN Raises("ZeroDivisionError", 760)
    ELSE LET n_bins_ == Len(flux) \div binsize
         IN  IF n_bins_ = 0 THEN Raises("ValueError", 761)
             ELSE LET indexes == array_split(Len(time), n_bins_)
                  IN  IF \E b \in 1..n_bins_ : \E p \in 1..Len(indexes[b]) :
                            indexes[b][p] >= Len(flux)
                      THEN Raises("IndexError", 763)
                      ELSE Returns([indexes |-> indexes,
                                    binned_time |-> [b \in 1..n_bins_ |->
                                                        methodf(method, time, indexes[b])],
                                    binned_flux |-> [b \in 1..n_bins_ |->
                                                        methodf(method, flux, indexes[b])]])

\* the light curves handed to bin: time and flux of up to MaxLen samples
BinTime(n) == [k \in 1..n |-> StartTime + (k - 1) * 100000]

CallBin ==
    /\ fn = "none"
    /\ \E nt \in 0..MaxLen, nf \in 0..MaxLen, binsize \in 0..MaxBinsize,
          method \in {"mean", "median", "sum"} :
          /\ fn' = "bin"
          /\ args' = [time |-> BinTime(nt), flux |-> FluxOf(1, BinTime(nf)),
                      binsize |-> binsize, method |-> method]
          /\ ret' = bin(BinTime(nt), FluxOf(1, BinTime(nf)), binsize, method)
    /\ UNCHANGED <<paramVars, first_run, runVars, exc_stage, pc, exc, lc_30min, target_ID,
                   bound, dataVars, maskVars, loopVars>>

\* np.mod(t-epoch-period/2, period)/period for period > 0, as the fraction
\* num/den: with x = t-epoch-period/2, np.mod(x, period) is
\* ((2x) mod (2 period))/2, which is in [0, period) as the result of np.mod with
\* a positive divisor is
phase_unshifted(t, epoch, period) ==
    [num |-> (2 * (t - epoch)) % (2 * period), den |-> 2 * period]

phase(t, epoch, period) ==
    [num |-> (2 * (t - epoch) - period) % (2 * period), den |-> 2 * period]

\* binsize of the call of bin in phase_fold_plot (CDIPS 727)
FoldBinsize == 15

\* phase_fold_plot(t, lc, period, epoch, ..., binned), CDIPS 719-731: the
\* phases are computed and plotted, then binned when asked for
phase_fold_plot(t, lc, period, epoch, binned) ==
    LET folded == [k \in 1..Len(t) |-> phase(t[k], epoch, period)]
        binned_lc == bin(folded, lc, FoldBinsize, "mean")
    IN  IF binned /\ binned_lc.status = "raised"
        THEN [status |-> "raised", exc |-> binned_lc.exc, line |-> 727, phase |-> folded]
        ELSE [status |-> "returned", phase |-> folded]

\* times, epochs and periods of the folds, in one unit of time
FoldTimes == 0..7
FoldEpochs == 0..3
FoldPeriods == {2, 3}
FoldSamples == 2

CallPhaseFold ==
    /\ fn = "none"
    /\ \E t \in [1..FoldSamples -> FoldTimes], epoch \in FoldEpochs, period \in FoldPeriods,
          binned \in BOOLEAN :
          /\ fn' = "phase_fold_plot"
          /\ args' = [t |-> t, period |-> period, epoch |-> epoch, binned |-> binned]
          /\ ret' = phase_fold_plot(t, FluxOf(1, t), period, epoch, binned)
    /\ UNCHANGED <<paramVars, first_run, runVars, exc_stage, pc, exc, lc_30min, target_ID,
                   bound, dataVars, maskVars, loopVars>>

\* uvw: k = 4.74047 in units of 0.01 and the matrix A in units of 0.001, both
\* rounded to the unit
k_uvw == 474
A_uvw == << <<55, 494, -868>>, <<873, -445, -198>>, <<484, 747, 456>> >>

\* cos and sin of an angle in degrees that is a multiple of 90
cos_deg(a) == CASE a % 360 = 0 -> 1 [] a % 360 = 180 -> -1 [] OTHER -> 0
sin_deg(a) == CASE a % 360 = 90 -> 1 [] a % 360 = 270 -> -1 [] OTHER -> 0

\* part_000 67-70 with plx = 1000/d: k*pm/plx = k*pm*d/1000, in 1e-5 km/s
vec1(rv) == rv * 100000
vec2(d, pmra, pmdec) == k_uvw * pmra * d
vec3(d, pmra, pmdec) == k_uvw * pmra * d

\* part_000 73-81: one row of the rotation
velocity(row, ra, dec, d, pmra, pmdec, rv) ==
    LET cos_ra == cos_deg(ra)
        sin_ra == sin_deg(ra)
        cos_dec == cos_deg(dec)
        sin_dec == sin_deg(dec)
        A == A_uvw
    IN  ( A[row][1]*cos_ra*cos_dec + A[row][2]*sin_ra*cos_dec + A[row][3]*sin_dec) * vec1(rv)
      + ((0 - A[row][1])*sin_ra + A[row][2]*cos_ra) * vec2(d, pmra, pmdec)
      + ((0 - A[row][1])*cos_ra*sin_dec - A[row][2]*sin_ra*sin_dec + A[row][3]*cos_dec)
            * vec3(d, pmra, pmdec)

\* uvw(ra, dec, d, pmra, pmdec, rv) for one star, part_000 24-84
uvw(ra, dec, d, pmra, pmdec, rv) ==
    [u |-> 0 - velocity(1, ra, dec, d, pmra, pmdec, rv),
     v |-> velocity(2, ra, dec, d, pmra, pmdec, rv),
     w |-> velocity(3, ra, dec, d, pmra, pmdec, rv)]

\* the stars: angles in degrees, distances in pc, proper motions in mas/yr,
\* radial velocities in km/s
Angles == {0, 90, 180, 270}
Distances == {1, 2}
ProperMotions == {-1, 0, 1}
RadialVelocities == {0, 1}

CallUvw ==
    /\ fn = "none"
    /\ \E ra \in Angles, dec \in {0, 90, 270}, d \in Distances, pmra \in ProperMotions,
          pmdec \in ProperMotions, rv \in RadialVelocities :
          /\ fn' = "uvw"
          /\ args' = [ra |-> ra, dec |-> dec, d |-> d, pmra |-> pmra, pmdec |-> pmdec,
                      rv |-> rv]
          /\ ret' = Returns(uvw(ra, dec, d, pmra, pmdec, rv))
    /\ UNCHANGED <<paramVars, first_run, runVars, exc_stage, pc, exc, lc_30min, target_ID,
                   bound, dataVars, maskVars, loopVars>>

\* clean_tess_lc (remove_tess_systematics.py 142-271)

\* the sectors that have a bad-times file (193-253)
Sectors == 1..19

\* 202-208, 211-213, 238-240, 247-251: the windows removed from a sector
InExcludedWindow(sector, t) ==
    CASE sector = 3 -> \/ t < 1385896600
                       \/ t > 1406292500
                       \/ (t > 1395480000 /\ t < 1396605000)
      [] sector = 4 -> t > 1418536910 /\ t < 1421211680
      [] sector = 15 -> t > 1737300000
      [] sector = 18 -> t < 1791500000 \/ t > 1813480000
      [] OTHER -> FALSE

\* 258: abs(time[j] - i) < 0.015
near_mom_dump_inclusive(t, dump) == Abs(t - dump) <= DumpHalfWidth

near_mom_dump(t, dump) == Abs(t - dump) < DumpHalfWidth

\* for_removal[j] after the loops for a sample at time t
for_removal(sector, mom_dumps, t) ==
    \/ InExcludedWindow(sector, t)
    \/ \E dump \in mom_dumps : near_mom_dump(t, dump)

\* clean_tess_lc(time, flux, flux_err, target_ID, sector, save_path) with the
\* content bad_times of the file s<sector>_bad_times.pkl
clean_tess_lc(time, flux, sector, bad_times) ==
    IF sector \notin Sectors THEN Raises("UnboundLocalError", 256)
    ELSE LET kept == SelectSeq(arange(Len(time)),
                               LAMBDA j : ~for_removal(sector, bad_times, time[j + 1]))
         IN  Returns([clean_time |-> [p \in 1..Len(kept) |-> time[kept[p] + 1]],
                      clean_flux |-> [p \in 1..Len(kept) |-> flux[kept[p] + 1]]])

\* the set S as an increasing sequence
RECURSIVE SortedSeq(_)
SortedSeq(S) ==
    IF S = {} THEN <<>>
    ELSE LET m == CHOOSE x \in S : \A y \in S : x <= y
         IN  <<m>> \o SortedSeq(S \ {m})

\* the inputs of clean_tess_lc: sectors with and without a window (20 has no
\* file), one bad time of each, and sample times at and next to every limit
MaxSamples == 2
CleanSectors == {1, 3, 4, 15, 18, 20}

WindowLimits(sector) ==
    CASE sector = 3 -> {1385896600, 1406292500, 1395480000, 1396605000}
      [] sector = 4 -> {1418536910, 1421211680}
      [] sector = 15 -> {1737300000}
      [] sector = 18 -> {1791500000, 1813480000}
      [] OTHER -> {}

BadTime(sector) ==
    CASE sector = 1 -> 1327840000
      [] sector = 3 -> 1390250000
      [] sector = 4 -> 1416940000
      [] sector = 15 -> 1720000000
      [] sector = 18 -> 1800000000
      [] OTHER -> 1850000000

SampleTimes(sector) ==
    UNION {{e - 1, e, e + 1} : e \in WindowLimits(sector)}
        \cup {BadTime(sector) + delta : delta \in {0 - 15000, 0 - 14999, 0, 14999, 15000}}

CallClean ==
    /\ fn = "none"
    /\ \E sector \in CleanSectors :
         \E S \in SUBSET SampleTimes(sector), bad_times \in {{}, {BadTime(sector)}} :
          /\ Cardinality(S) <= MaxSamples
          /\ fn' = "clean_tess_lc"
          /\ args' = [time |-> SortedSeq(S), sector |-> sector, bad_times |-> bad_times]
          /\ ret' = clean_tess_lc(SortedSeq(S), FluxOf(1, SortedSeq(S)), sector, bad_times)
    /\ UNCHANGED <<paramVars, first_run, runVars, exc_stage, pc, exc, lc_30min, target_ID,
                   bound, dataVars, maskVars, loopVars>>

\* The ranking of the periodogram peaks (CDIPS 527-532 and 561-576) on the
\* array results.power; results.period[k] is the period of sample k

\* scipy.signal.find_peaks: the samples higher than both neighbours, a flat
\* top counting once, at its middle; the first and the last sample are never
\* peaks.  The width and distance conditions only remove peaks that are narrow
\* or close to a higher one; they are taken at one sample.
LocalMaxima(x) ==
    {m \in 1..(Len(x) - 2) :
        \E l \in 1..(Len(x) - 2), r \in 1..(Len(x) - 2) :
            /\ l <= r
            /\ m = (l + r) \div 2
            /\ \A j \in l..r : x[j + 1] = x[l + 1]
            /\ x[l] < x[l + 1]
            /\ x[r + 2] < x[r + 1]}

find_peaks(x) == SortedSeq(LocalMaxima(x))

\* np.argmax(x): the first index of the maximum
argmax(x) ==
    CHOOSE a \in 0..(Len(x) - 1) :
        /\ \A j \in 0..(Len(x) - 1) : x[j + 1] <= x[a + 1]
        /\ \A j \in 0..(a - 1) : x[j + 1] < x[a + 1]

\* x[np.argsort(x)]: the values of x in increasing order
RECURSIVE sorted_values(_)
sorted_values(x) ==
    IF x = <<>> THEN <<>>
    ELSE LET a == argmax(x)
         IN  sorted_values(SubSeq(x, 1, a) \o SubSeq(x, a + 2, Len(x))) \o <<x[a + 1]>>

\* np.where(x == value)[0][0]: the first sample with that power
first_where(x, value) ==
    CHOOSE a \in 0..(Len(x) - 1) :
        /\ x[a + 1] = value
        /\ \A j \in 0..(a - 1) : x[j + 1] # value

peak_ranking(power) ==
    LET index == argmax(power)
        all_peaks == find_peaks(power)
        all_peak_powers == [p \in 1..Len(all_peaks) |-> power[all_peaks[p] + 1]]
        sorted_peak_powers == sorted_values(all_peak_powers)
        n == Len(sorted_peak_powers)
    IN  IF n < 2 THEN Raises("IndexError", 569)
        ELSE IF n < 3 THEN Raises("IndexError", 574)
        ELSE Returns([index |-> index,
                      index_peak_2 |-> first_where(power, sorted_peak_powers[n - 1]),
                      index_peak_3 |-> first_where(power, sorted_peak_powers[n - 2]),
                      all_peaks |-> all_peaks])

\* the periodograms: PowerLen samples of power 0..MaxPower
PowerLen == 7
MaxPower == 3

CallPeakRanking ==
    /\ fn = "none"
    /\ \E power \in [1..PowerLen -> 0..MaxPower] :
          /\ fn' = "peak_ranking"
          /\ args' = [power |-> power]
          /\ ret' = peak_ranking(power)
    /\ UNCHANGED <<paramVars, first_run, runVars, exc_stage, pc, exc, lc_30min, target_ID,
                   bound, dataVars, maskVars, loopVars>>

\* The back-propagated galactic longitudes (part_000 86-108 and 154-162)

\* old_position_angle(current_ra, current_dec, pmra, pmdec, age), one star:
\* old_ra = current_ra - pmra*age, old_dec = current_dec - pmdec*age
old_position_angle(current_ra, current_dec, pmra, pmdec, age) ==
    [old_ra |-> current_ra - pmra * age, old_dec |-> current_dec - pmdec * age]

\* the body of the loop at 158-160 for one element: only data >= 360 is
\* changed (the branch for data < 0 is commented out, 161-162); // is the
\* floor division
wrap_around(data) ==
    IF data >= 360 THEN data - 360 * (data \div 360) ELSE data

\* the stars: current l and b in degrees, pm_l_cosb and pm_b as the script
\* uses them (degrees per Myr), and the three ages of 123-125 in Myr
Longitudes == {0, 10, 180, 350, 359}
Latitudes == {-20, 0, 20}
LongitudeMotions == {-40, -1, 0, 1, 40}
LatitudeMotions == {-1, 1}
Ages == {11, 16, 17}

CallWrap ==
    /\ fn = "none"
    /\ \E l \in Longitudes, b \in Latitudes, pm_l_cosb \in LongitudeMotions,
          pm_b \in LatitudeMotions, age \in Ages :
          LET old == old_position_angle(l, b, pm_l_cosb, pm_b, age)
          IN  /\ fn' = "wrap"
              /\ args' = [l |-> l, b |-> b, pm_l_cosb |-> pm_l_cosb, pm_b |-> pm_b,
                          age |-> age]
              /\ ret' = Returns([original_l |-> wrap_around(old.old_ra),
                                 original_b |-> old.old_dec])
    /\ UNCHANGED <<paramVars, first_run, runVars, exc_stage, pc, exc, lc_30min, target_ID,
                   bound, dataVars, maskVars, loopVars>>

\* no script is running; a helper function is called once
InitCalls ==
    /\ variant = "CDIPS"
    /\ n_bins = 1
    /\ transit_mask = FALSE
    /\ pipeline = "CDIPS"
    /\ injected_planet = "False"
    /\ first_run = NoRun
    /\ fn = "none"
    /\ args = NoArgs
    /\ ret = NoReturn
    /\ run = "init"
    /\ cur = 0
    /\ csv = <<>>
    /\ saved = {}
    /\ log = <<>>
    /\ load_failed = {}
    /\ exc_stage = "none"
    /\ crash_stage = "none"
    /\ pc = "idle"
    /\ exc = "none"
    /\ lc_30min = NoLightCurve
    /\ target_ID = 0
    /\ bound = {}
    /\ owner = 0
    /\ t_cut = <<>>
    /\ flux_cut = <<>>
    /\ flux_transit_mask = <<>>
    /\ t_transit_mask = <<>>
    /\ i = 0
    /\ low_bound = 0
    /\ residual_flux_lowess = <<>>
    /\ time_from_lowess_detrend = <<>>
    /\ fits = <<>>
    /\ skipped = {}

NextCalls ==
    \/ CallBin
    \/ CallPhaseFold
    \/ CallUvw
    \/ CallClean
    \/ CallPeakRanking
    \/ CallWrap

SpecCalls == InitCalls /\ [][NextCalls]_vars

----------------------------------------------------------------------------
\* Vocabulary of the properties of lowess_partial

\* consecutive samples j, j+1 (0-based) are more than 0.1 apart
Apart(j) == t_cut[j + 2] - t_cut[j + 1] > GapThreshold

GapPositions == {j \in 0..(Len(t_cut) - 2) : Apart(j)}

\* the detrending stage ran to its end
DetrendCompleted == pc = "bls"

\* the detrending stage ended, normally or by raising
DetrendEnded == pc = "bls" \/ (pc = "handler" /\ exc_stage = "detrend")

Covers(call, k) == call.low <= k /\ k < call.high

\* the gap-delimited segment of sample k: the maximal run without a gap
RunStart(k) ==
    CHOOSE a \in 0..k : /\ a = 0 \/ Apart(a - 1)
                        /\ \A j \in a..(k - 1) : ~Apart(j)
RunEnd(k) ==
    CHOOSE b \in (k + 1)..Len(t_cut) : /\ b = Len(t_cut) \/ Apart(b - 1)
                                       /\ \A j \in k..(b - 2) : ~Apart(j)
InShortRun(k) == RunEnd(k) - RunStart(k) < Window

InOutput(k) == \E m \in 1..Len(time_from_lowess_detrend) :
                  time_from_lowess_detrend[m] = t_cut[k + 1]

----------------------------------------------------------------------------
C3_FracInUnitInterval ==
    \A c \in 1..Len(fits) : 0 < fits[c].window /\ fits[c].window <= fits[c].len

C4_ExpectedCalls(g) ==
    IF variant = "CDIPS" /\ g + 1 < n_bins
    THEN << <<0, Len(t_cut)>> >>
    ELSE << <<0, g + 1>>, <<g + 1, Len(t_cut)>> >>

C7_OutputNoLongerThanInput ==
    /\ Len(residual_flux_lowess) = Len(time_from_lowess_detrend)
    /\ Len(residual_flux_lowess) <= Len(t_cut)

\* C7 witness: a completed detrending of two sections
C7_Witness ==
    /\ DetrendCompleted
    /\ Len(fits) = 2
    /\ Len(residual_flux_lowess) = Len(t_cut)

\* the flux of sample k that the code hands to the fit: the observed flux, or
\* with transit_mask the interpolated flux of an in-transit sample
C8_FittedFlux(k) ==
    IF transit_mask /\ near_transit(t_cut[k + 1])
    THEN [src |-> "interp", owner |-> owner, ix |-> k]
    ELSE ObservedFlux(owner, k)

\* the residual at output position m, read against the fit that produced it
C8_ResidualOfOwnFit(m, fitted(_)) ==
    LET r == residual_flux_lowess[m]
    IN  /\ r.fit \in 1..Len(fits)
        /\ LET call == fits[r.fit]
               k == call.low + r.pos - 1
           IN  /\ Covers(call, k)
               /\ r.obs = ObservedFlux(owner, k)
               /\ call.exog = Slice(t_cut, call.low, call.high)
               /\ call.endog = [p \in 1..(call.high - call.low) |-> fitted(call.low + p - 1)]

C8_Observed(k) == ObservedFlux(owner, k)

\* C8 (as stated): every residual is the observed flux of an input sample over
\* the trend value its own section's fit produced for that sample, the fit
\* being made on the observed (time, flux) samples of the section.
C8_TrendFittedToObserved ==
    \A m \in 1..Len(residual_flux_lowess) : C8_ResidualOfOwnFit(m, C8_Observed)

\* C8 (amended): every residual is the observed flux of an input sample over
\* the trend value its own section's fit produced for that sample; the fit is
\* made on the observed samples of the section when transit_mask is off, and
\* with transit_mask on it is made on the section's samples with the fluxes
\* of in-transit samples replaced by interpolated values.
C8_TrendFittedToMaskedFlux ==
    \A m \in 1..Len(residual_flux_lowess) : C8_ResidualOfOwnFit(m, C8_FittedFlux)

\* C8 witness: a completed masked detrending whose fit saw an interpolated flux
C8_Witness ==
    /\ DetrendCompleted
    /\ transit_mask
    /\ \E c \in 1..Len(fits) : \E p \in 1..Len(fits[c].endog) : fits[c].endog[p].src = "interp"
    /\ Len(residual_flux_lowess) > 0

\* the input sample (0-based) with the time at output position m
C9_SampleAt(m) ==
    CHOOSE k \in 0..(Len(t_cut) - 1) : t_cut[k + 1] = time_from_lowess_detrend[m]

\* C9: the output times are input times in input order, none twice, and the
\* residual at each output position is the residual of the sample with the
\* time at that position.
C9_OutputPreservesInputOrder ==
    /\ \A m \in 1..Len(time_from_lowess_detrend) :
          /\ \E k \in 0..(Len(t_cut) - 1) : t_cut[k + 1] = time_from_lowess_detrend[m]
          /\ m <= Len(residual_flux_lowess)
          /\ residual_flux_lowess[m].obs = ObservedFlux(owner, C9_SampleAt(m))
          /\ fits[residual_flux_lowess[m].fit].low + residual_flux_lowess[m].pos - 1
                = C9_SampleAt(m)
    /\ \A m1, m2 \in 1..Len(time_from_lowess_detrend) :
          m1 < m2 => C9_SampleAt(m1) < C9_SampleAt(m2)

\* C9 witness: a completed detrending of two sections, one of them across a
\* skipped gap
C9_Witness ==
    /\ DetrendCompleted
    /\ Len(fits) >= 2
    /\ skipped # {}
    /\ Len(time_from_lowess_detrend) = Len(t_cut)

----------------------------------------------------------------------------
\* Vocabulary of the properties of the driver

\* the stages of one target's pipeline after its light curve is loaded
PipelineStages == {"clean", "pickle", "ls", "mask", "detrend", "bls", "peaks", "fold",
                   "csv", "save"}

\* something was written on behalf of target T
WrittenFor(T) ==
    \/ \E f \in saved : f.writer = T
    \/ \E r \in 1..Len(csv) : csv[r].writer = T

\* the body of target T is over
BodyOver(T) == cur > T \/ (cur = T /\ pc \in {"idle", "dead"}) \/ run = "finished"

Logged(T) == \E m \in 1..Len(log) : log[m][2] = T \/ log[m][1] = "Invalid pipeline"

\* C5 (as stated): a target whose light curve cannot be loaded is logged, has
\* nothing written for it, and does not stop the loop over the targets.
C5_LoadFailureIsContained ==
    \A T \in load_failed :
        /\ ~WrittenFor(T)
        /\ ~(run = "crashed" /\ cur = T)
        /\ BodyOver(T) => Logged(T)

\* C6 (as stated): no exception raised at a stage of the pipeline of a target
\* whose light curve was loaded ends the run over the remaining targets.
C6_NoStageExceptionEndsRun ==
    ~(run = "crashed" /\ crash_stage \in PipelineStages /\ cur \notin load_failed)

\* C10 (as stated): every file and every table row written while a target is
\* processed holds data of that target's own light curve, never data that an
\* earlier target left in a variable.
C10_TargetsIndependent ==
    /\ \A f \in saved : f.owner = f.writer
    /\ \A r \in 1..Len(csv) : csv[r].owner = csv[r].writer

----------------------------------------------------------------------------
C12_TableHoldsThisRunOnly ==
    (variant = "CDIPS" /\ run # "init") =>
        /\ Len(csv) >= 2
        /\ csv[1] = InfoRow
        /\ csv[2] = HeaderRow
        /\ \A r \in 3..Len(csv) : csv[r].writer \in 1..cur /\ csv[r].TIC = csv[r].writer
        /\ \A r1, r2 \in 3..Len(csv) : r1 < r2 => csv[r1].writer < csv[r2].writer

\* C12 witness: a finished run that appended the row of each of its targets
C12_Witness ==
    /\ variant = "CDIPS"
    /\ run = "finished"
    /\ Len(csv) = 2 + cur
    /\ cur >= 2

\* C13 (as stated): on a light curve (time and flux of one length), bin b holds
\* the binsize consecutive cadences b*binsize .. (b+1)*binsize-1, so the
\* len(flux) mod binsize leftover data points enter no bin's mean or median.
C13_LeftoverPointsIgnored ==
    (fn = "bin" /\ ret.status = "returned" /\ Len(args.time) = Len(args.flux)) =>
        \A b \in 1..Len(ret.value.binned_flux) :
            /\ ret.value.binned_flux[b].a =
                  [p \in 1..args.binsize |-> (b - 1) * args.binsize + p - 1]
            /\ ret.value.binned_time[b].a = ret.value.binned_flux[b].a

\* C14 (as stated): on a light curve with binsize >= 1, bin raises ValueError
\* at the test of method, before any bin is computed, when method is not
\* 'mean' or 'median'; for 'mean' and 'median' it returns binned_time and
\* binned_flux of equal length.
C14_ValueErrorOnlyForMethod ==
    (fn = "bin" /\ args.binsize >= 1 /\ Len(args.time) = Len(args.flux)) =>
        IF args.method \notin {"mean", "median"}
        THEN ret = Raises("ValueError", 757)
        ELSE /\ ret.status = "returned"
             /\ Len(ret.value.binned_time) = Len(ret.value.binned_flux)

\* C15: for period > 0 every sample gets a phase in [0, 1), two samples whose
\* times differ by a whole multiple of period get the same phase, and a
\* sample at t = epoch gets phase 0.5.
C15_PhaseFold ==
    (fn = "phase_fold_plot" /\ args.period > 0) =>
        /\ Len(ret.phase) = Len(args.t)
        /\ \A k \in 1..Len(args.t) :
              /\ ret.phase[k].den > 0
              /\ 0 <= ret.phase[k].num
              /\ ret.phase[k].num < ret.phase[k].den
              /\ args.t[k] = args.epoch => 2 * ret.phase[k].num = ret.phase[k].den
        /\ \A k1, k2 \in 1..Len(args.t) :
              (\E n \in 0..8 : args.t[k1] - args.t[k2] = n * args.period)
                  => ret.phase[k1] = ret.phase[k2]

\* C15 witness: a fold with a sample at the epoch and a sample two periods later
C15_Witness ==
    /\ fn = "phase_fold_plot"
    /\ ret.status = "returned"
    /\ args.t[1] = args.epoch
    /\ args.t[2] = args.epoch + 2 * args.period

\* C16 (as stated): pmdec enters the result of uvw: with a finite distance
\* that is not zero, a call that differs from this one only in pmdec returns
\* different velocities (the velocity along the declination circle is never
\* perpendicular to all three axes).
C16_PmdecEntersResult ==
    (fn = "uvw" /\ ret.status = "returned") =>
        \A pmdec \in ProperMotions \ {args.pmdec} :
            uvw(args.ra, args.dec, args.d, args.pmra, pmdec, args.rv) # ret.value

\* the removal rule of C19 for a sample at time t (in 1e-6 day)
C19_InWindow(sector, t) ==
    \/ sector = 3 /\ (t < 1385896600 \/ t > 1406292500 \/ (1395480000 < t /\ t < 1396605000))
    \/ sector = 4 /\ 1418536910 < t /\ t < 1421211680
    \/ sector = 15 /\ t > 1737300000
    \/ sector = 18 /\ (t < 1791500000 \/ t > 1813480000)

C19_Removed(sector, bad_times, t) ==
    \/ C19_InWindow(sector, t)
    \/ \E b \in bad_times : t - b < 15000 /\ b - t < 15000

\* C19: for sectors 1 to 19 clean_tess_lc returns the samples, times and
\* fluxes alike and in their order, that are neither strictly within 0.015 of
\* a bad time of the sector's mask nor in the sector's excluded window.
C19_RemovesExactlyMasked ==
    (fn = "clean_tess_lc" /\ args.sector \in 1..19) =>
        /\ ret.status = "returned"
        /\ ret.value.clean_time =
              SelectSeq(args.time,
                        LAMBDA t : ~C19_Removed(args.sector, args.bad_times, t))
        /\ Len(ret.value.clean_flux) = Len(ret.value.clean_time)
        /\ \A p \in 1..Len(ret.value.clean_time) :
              \E j \in 1..Len(args.time) :
                  /\ args.time[j] = ret.value.clean_time[p]
                  /\ ret.value.clean_flux[p] = ObservedFlux(1, j - 1)

\* C19 witness: of two samples of sector 3, the one 0.014999 from the bad time
\* is removed and the one exactly 0.015 from it is kept
C19_Witness ==
    /\ fn = "clean_tess_lc"
    /\ args.sector = 3
    /\ args.bad_times = {BadTime(3)}
    /\ args.time = <<BadTime(3) + 14999, BadTime(3) + 15000>>
    /\ ret.status = "returned"
    /\ ret.value.clean_time = <<BadTime(3) + 15000>>

C17_EveryInjectedPlanetCompletes ==
    \A value \in InjectedPlanets :
        (/\ injected_planet = value
         /\ DetrendEnded
         /\ Len(t_cut) > 0
         /\ \A c \in 1..Len(fits) : fits[c].window <= fits[c].len
         /\ exc # "OSError") => DetrendCompleted

\* C18 (as stated): the trailing section of the CDIPS function, the one that
\* ends at the end of the data, is handed to the fit only when it has at
\* least n_bins points.
C18_TrailingSectionGuarded ==
    variant = "CDIPS" =>
        \A c \in 1..Len(fits) :
            fits[c].high = Len(t_cut) => Len(fits[c].exog) >= Window

----------------------------------------------------------------------------
\* C21: the wrap-around compensation leaves every back-propagated longitude
\* inside one turn, 0 <= original_l < 360, for every current longitude,
\* proper motion and age, including those that carry the longitude below 0.
C21_LongitudeInsideOneTurn ==
    (fn = "wrap" /\ ret.status = "returned") =>
        /\ 0 <= ret.value.original_l
        /\ ret.value.original_l < 360

----------------------------------------------------------------------------
\* C22: with detrending = 'lowess_partial', whenever the detrending stage of
\* ffi_lowess_detrend completes, the fitted sections form a partition of the
\* whole input: time_from_lowess_detrend equals t_cut element for element,
\* the residuals (BLS_flux) are as many as t_cut, and the residual at
\* position k is the residual of sample k, so that the periodogram and the
\* phase folding pair t_cut[k] with it.
C22_SectionsPartitionInput ==
    (variant = "CDIPS" /\ DetrendCompleted) =>
        /\ time_from_lowess_detrend = t_cut
        /\ Len(residual_flux_lowess) = Len(t_cut)
        /\ fits[1].low = 0
        /\ fits[Len(fits)].high = Len(t_cut)
        /\ \A c \in 1..(Len(fits) - 1) : fits[c].high = fits[c + 1].low
        /\ \A k \in 1..Len(residual_flux_lowess) :
              /\ residual_flux_lowess[k].obs = ObservedFlux(owner, k - 1)
              /\ fits[residual_flux_lowess[k].fit].low + residual_flux_lowess[k].pos - 1
                    = k - 1

\* C22 witness: a completed detrending of the CDIPS script with a fitted
\* section before the trailing one and a skipped gap inside a section
C22_Witness ==
    /\ variant = "CDIPS"
    /\ DetrendCompleted
    /\ Len(fits) >= 2
    /\ skipped # {}
    /\ Len(t_cut) >= 4
    /\ fits[Len(fits)].low > 0

----------------------------------------------------------------------------
\* Vocabulary of the properties of the table rows of one call

\* the stages the row of a call comes after
C23_Stages == {"clean", "detrend", "bls", "peaks", "fold"}

\* the rows of Period_info_table.csv appended by call c
C23_RowsOf(c) == {r \in 1..Len(csv) : csv[r].writer = c}

\* the current call has completed cleaning, detrending, the periodogram
\* search, the ranking of the peaks and the phase folding, none of them raised
C23_StagesCompleted ==
    /\ exc_stage = "none"
    /\ exc = "none"
    /\ lc_30min.owner = cur
    /\ Len(fits) >= 1
    /\ time_from_lowess_detrend = t_cut
    /\ {"BLS_flux", "period", "epoch", "phase"} \subseteq bound
    /\ pc \notin {"load", "clean", "ls", "cut", "mask", "lowess", "loop", "bls", "peaks",
                  "fold"}

\* C23: a call of ffi_lowess_detrend appends at most one row to
\* Period_info_table.csv, and appends it only after cleaning, detrending, the
\* periodogram search, the ranking of the three peaks and the phase folding
\* have all completed; a call in which one of these stages raises leaves the
\* table unchanged and writes no detrended-lc CSV.
C23_RowOnlyAfterAllStages ==
    /\ [](variant = "CDIPS" =>
            /\ \A c \in 1..NTargets : Cardinality(C23_RowsOf(c)) <= 1
            /\ exc_stage \in C23_Stages =>
                  /\ C23_RowsOf(cur) = {}
                  /\ ~\E f \in saved : f.file = "detrended_lc" /\ f.writer = cur)
    /\ [][(variant = "CDIPS" /\ run # "init" /\ csv' # csv) =>
            /\ C23_StagesCompleted
            /\ C23_RowsOf(cur) = {}
            /\ Len(csv') = Len(csv) + 1
            /\ SubSeq(csv', 1, Len(csv)) = csv
            /\ csv'[Len(csv')].writer = cur]_vars

\* C23 witness: the first call appended its row and saved its detrended light
\* curve, and the second call, whose phase folding raised, is over with the
\* table as the first call left it
C23_Witness ==
    /\ variant = "CDIPS"
    /\ cur = 2
    /\ pc = "idle"
    /\ exc_stage = "fold"
    /\ C23_RowsOf(1) = {3}
    /\ Len(csv) = 3
    /\ \E f \in saved : f.file = "detrended_lc" /\ f.writer = 1

====
